---- MODULE Spec2Model ----
(***************************************************************************)
(* finda: unified market-data fetch with ordered provider fallback.        *)
(*                                                                         *)
(* Text (timeframe tokens, date tokens, symbols) is a sequence of          *)
(* one-character strings, so that the parsing and rendering functions of   *)
(* finda/utils.py are computed character by character as the code does.    *)
(* Instants are records of calendar fields; epoch milliseconds are counted *)
(* from EpochYear-01-01T00:00:00 (the code counts from 1970; only          *)
(* differences and comparisons of timestamps are used).                    *)
(***************************************************************************)
EXTENDS Integers, Sequences, FiniteSets, TLC

\* ------------------------------------------------------------------ text

Digits == <<"0", "1", "2", "3", "4", "5", "6", "7", "8", "9">>

LowerCase == <<"a", "b", "c", "d", "e", "f", "g", "h", "i", "j", "k", "l", "m", "n", "o", "p", "q", "r", "s", "t", "u", "v", "w", "x", "y", "z">>

UpperCase == <<"A", "B", "C", "D", "E", "F", "G", "H", "I", "J", "K", "L", "M", "N", "O", "P", "Q", "R", "S", "T", "U", "V", "W", "X", "Y", "Z">>

Range(f) == {f[i] : i \in DOMAIN f}

IsDigit(c) == c \in Range(Digits)

IsAlpha(c) == c \in Range(LowerCase) \cup Range(UpperCase)

IsSpace(c) == c = " "

\* str.lower() / str.upper() on one character
LowerChar(c) == IF c \in Range(UpperCase) THEN LowerCase[CHOOSE i \in DOMAIN UpperCase : UpperCase[i] = c] ELSE c

UpperChar(c) == IF c \in Range(LowerCase) THEN UpperCase[CHOOSE i \in DOMAIN LowerCase : LowerCase[i] = c] ELSE c

lower(s) == [i \in DOMAIN s |-> LowerChar(s[i])]

upper(s) == [i \in DOMAIN s |-> UpperChar(s[i])]

\* str.strip(): drop the whitespace at both ends
RECURSIVE lstrip(_)
lstrip(s) == IF s # <<>> /\ IsSpace(Head(s)) THEN lstrip(Tail(s)) ELSE s

RECURSIVE rstrip(_)
rstrip(s) == IF s # <<>> /\ IsSpace(s[Len(s)]) THEN rstrip(SubSeq(s, 1, Len(s) - 1)) ELSE s

strip(s) == rstrip(lstrip(s))

\* str.startswith
startswith(s, k) == Len(k) <= Len(s) /\ SubSeq(s, 1, Len(k)) = k

\* the length of the longest prefix of s whose characters all satisfy the class
RECURSIVE AlphaRun(_)
AlphaRun(s) == IF s # <<>> /\ IsAlpha(Head(s)) THEN 1 + AlphaRun(Tail(s)) ELSE 0

RECURSIVE DigitRun(_)
DigitRun(s) == IF s # <<>> /\ IsDigit(Head(s)) THEN 1 + DigitRun(Tail(s)) ELSE 0

\* str.split(sep) for a one-character separator
RECURSIVE split(_, _)
split(s, sep) == IF \A i \in DOMAIN s : s[i] # sep THEN <<s>> ELSE LET i == CHOOSE j \in DOMAIN s : s[j] = sep /\ \A k \in 1..(j - 1) : s[k] # sep IN <<SubSeq(s, 1, i - 1)>> \o split(SubSeq(s, i + 1, Len(s)), sep)

\* str.replace(old, "") for a one-character old
RECURSIVE remove(_, _)
remove(s, c) == IF s = <<>> THEN <<>> ELSE (IF Head(s) = c THEN <<>> ELSE <<Head(s)>>) \o remove(Tail(s), c)

DigitValue(c) == (CHOOSE i \in DOMAIN Digits : Digits[i] = c) - 1

\* int(p) succeeds on a non-empty run of decimal digits
IsInt(p) == p # <<>> /\ \A i \in DOMAIN p : IsDigit(p[i])

RECURSIVE int(_)
int(p) == IF p = <<>> THEN 0 ELSE 10 * int(SubSeq(p, 1, Len(p) - 1)) + DigitValue(p[Len(p)])

\* "%02d" and "%04d"
Pad2(n) == <<Digits[((n \div 10) % 10) + 1], Digits[(n % 10) + 1]>>

Pad4(n) == Pad2(n \div 100) \o Pad2(n % 100)

\* ------------------------------------------------- finda/utils.py: parse_tf

\* Python's None and the empty string are both falsy; the code only tests `if unit:`
None == <<>>

\* re.match(r"([a-zA-Z]+)(\d+)") then re.match(r"(\d+)([a-zA-Z]+)") on
\* tf.strip().lower(); the result is <<unit, num>> or <<None, None>>
\* t cut after its first a characters and after the b that follow: <<first, second>>
Cut(t, a, b) == <<SubSeq(t, 1, a), SubSeq(t, a + 1, a + b)>>

\* the two patterns on the lowered text t: a letters then da digits, or d digits then ad letters
Match(t, a, da, d, ad) ==
    IF a > 0 /\ da > 0 THEN Cut(t, a, da)
    ELSE IF d > 0 /\ ad > 0 THEN <<Cut(t, d, ad)[2], Cut(t, d, ad)[1]>>
    ELSE <<None, None>>

Runs(t, a, d) == Match(t, a, DigitRun(SubSeq(t, a + 1, Len(t))), d, AlphaRun(SubSeq(t, d + 1, Len(t))))

Lowered(t) == Runs(t, AlphaRun(t), DigitRun(t))

parse_tf(tf) == Lowered(lower(strip(tf)))

\* the unit tables, in the insertion order the code iterates them in
dukascopy_units ==
    << <<<<"m", "i", "n">>, <<"M", "I", "N">>>>, <<<<"m">>, <<"M", "I", "N">>>>,
       <<<<"h", "o", "u", "r">>, <<"H", "O", "U", "R">>>>, <<<<"h">>, <<"H", "O", "U", "R">>>>,
       <<<<"d", "a", "y">>, <<"D", "A", "Y">>>>, <<<<"d">>, <<"D", "A", "Y">>>>,
       <<<<"w", "e", "e", "k">>, <<"W", "E", "E", "K">>>>, <<<<"w">>, <<"W", "E", "E", "K">>>>,
       <<<<"m", "o", "n", "t", "h">>, <<"M", "O", "N", "T", "H">>>>, <<<<"m", "o">>, <<"M", "O", "N", "T", "H">>>>,
       <<<<"y", "e", "a", "r">>, <<"Y", "E", "A", "R">>>>, <<<<"y">>, <<"Y", "E", "A", "R">>>>,
       <<<<"s", "e", "c">>, <<"S", "E", "C">>>>, <<<<"s">>, <<"S", "E", "C">>>> >>

binance_units ==
    << <<<<"m", "i", "n">>, <<"m">>>>, <<<<"m">>, <<"m">>>>,
       <<<<"h", "o", "u", "r">>, <<"h">>>>, <<<<"h">>, <<"h">>>>,
       <<<<"d", "a", "y">>, <<"d">>>>, <<<<"d">>, <<"d">>>>,
       <<<<"w", "e", "e", "k">>, <<"w">>>>, <<<<"w">>, <<"w">>>>,
       <<<<"m", "o", "n", "t", "h">>, <<"M">>>>, <<<<"m", "o">>, <<"M">>>>,
       <<<<"s", "e", "c">>, <<"s">>>>, <<<<"s">>, <<"s">>>> >>

alpaca_units ==
    << <<<<"m", "i", "n">>, <<"M", "i", "n">>>>, <<<<"m">>, <<"M", "i", "n">>>>,
       <<<<"h", "o", "u", "r">>, <<"H", "o", "u", "r">>>>, <<<<"h">>, <<"H", "o", "u", "r">>>>,
       <<<<"d", "a", "y">>, <<"D", "a", "y">>>>, <<<<"d">>, <<"D", "a", "y">>>>,
       <<<<"w", "e", "e", "k">>, <<"W", "e", "e", "k">>>>, <<<<"w">>, <<"W", "e", "e", "k">>>> >>

\* a call's outcome: the value returned, or the type and message of the exception raised
Return(v) == [ok |-> TRUE, value |-> v]

Raise(type, msg) == [ok |-> FALSE, exc |-> type, msg |-> msg]

\* `if unit: for k, v in units.items(): if unit.startswith(k): return f"{num}{v}"`,
\* else `raise ValueError(...)`
First(hits) == CHOOSE i \in hits : \A j \in hits : i <= j

Lookup(num, units, hits, provider) ==
    IF hits # {} THEN Return(num \o units[First(hits)][2])
    ELSE Raise("ValueError", <<"Unrecognized timeframe", provider>>)

Translated(unit, num, units, provider) == Lookup(num, units, {i \in DOMAIN units : unit # None /\ startswith(unit, units[i][1])}, provider)

Parsed(p, units, provider) == Translated(p[1], p[2], units, provider)

translate(tf, units, provider) == Parsed(parse_tf(tf), units, provider)

user_to_dukascopy_tf(tf) == translate(tf, dukascopy_units, "Dukascopy")

user_to_binance_tf(tf) == translate(tf, binance_units, "Binance")

user_to_alpaca_tf(tf) == translate(tf, alpaca_units, "Alpaca")

\* ------------------------------------------------ finda/utils.py: user_to_dt

EpochYear == 2024

IsLeap(y) == (y % 4 = 0 /\ y % 100 # 0) \/ y % 400 = 0

DaysInMonth(y, m) == IF m = 2 THEN (IF IsLeap(y) THEN 29 ELSE 28) ELSE IF m \in {4, 6, 9, 11} THEN 30 ELSE 31

\* the range checks of datetime(year, month, day, hour, minute, second, microsecond)
ValidDateTime(f) ==
    /\ f[1] \in 1..9999 /\ f[2] \in 1..12 /\ f[3] \in 1..DaysInMonth(f[1], f[2])
    /\ f[4] \in 0..23 /\ f[5] \in 0..59 /\ f[6] \in 0..59 /\ f[7] \in 0..999999

datetime(f) == [year |-> f[1], month |-> f[2], day |-> f[3], hour |-> f[4], minute |-> f[5], second |-> f[6], microsecond |-> f[7]]

\* "%d"
RECURSIVE Decimal(_)
Decimal(n) == IF n < 10 THEN <<Digits[n + 1]>> ELSE Decimal(n \div 10) \o <<Digits[(n % 10) + 1]>>

\* "-%m-%dT%H:%M:%S"
AfterYear(dt) == <<"-">> \o Pad2(dt.month) \o <<"-">> \o Pad2(dt.day) \o <<"T">> \o Pad2(dt.hour) \o <<":">> \o Pad2(dt.minute) \o <<":">> \o Pad2(dt.second)

\* dt.strftime("%Y-%m-%dT%H:%M:%S"): %Y is the C library's, which (glibc, CPython
\* 3.11) does not fill a year below 1000 with zeros
strftime(dt) == Decimal(dt.year) \o AfterYear(dt)

Pad6(n) == Pad2(n \div 10000) \o Pad2((n \div 100) % 100) \o Pad2(n % 100)

\* dt.isoformat(): the year always has four digits, the microseconds are printed
\* when they are not zero
isoformat(dt) == Pad4(dt.year) \o AfterYear(dt) \o (IF dt.microsecond = 0 THEN <<>> ELSE <<".">> \o Pad6(dt.microsecond))

\* datetime.fromisoformat(s): YYYY-MM-DD[*HH[:MM[:SS[.ffffff]]]], ValueError otherwise
IsIsoDate(s) == Len(s) >= 10 /\ IsInt(SubSeq(s, 1, 4)) /\ s[5] = "-" /\ IsInt(SubSeq(s, 6, 7)) /\ s[8] = "-" /\ IsInt(SubSeq(s, 9, 10))

IsIsoTime(t) ==
    \/ Len(t) = 2 /\ IsInt(t)
    \/ Len(t) = 5 /\ IsInt(SubSeq(t, 1, 2)) /\ t[3] = ":" /\ IsInt(SubSeq(t, 4, 5))
    \/ Len(t) = 8 /\ IsInt(SubSeq(t, 1, 2)) /\ t[3] = ":" /\ IsInt(SubSeq(t, 4, 5)) /\ t[6] = ":" /\ IsInt(SubSeq(t, 7, 8))
    \/ Len(t) = 15 /\ IsInt(SubSeq(t, 1, 2)) /\ t[3] = ":" /\ IsInt(SubSeq(t, 4, 5)) /\ t[6] = ":" /\ IsInt(SubSeq(t, 7, 8)) /\ t[9] = "." /\ IsInt(SubSeq(t, 10, 15))

IsoField(t, from, to) == IF Len(t) >= to THEN int(SubSeq(t, from, to)) ELSE 0

IsoFields(s, t) == <<int(SubSeq(s, 1, 4)), int(SubSeq(s, 6, 7)), int(SubSeq(s, 9, 10)), IsoField(t, 1, 2), IsoField(t, 4, 5), IsoField(t, 7, 8), IsoField(t, 10, 15)>>

IsoChecked(wellformed, f) == IF wellformed /\ ValidDateTime(f) THEN Return(datetime(f)) ELSE Raise("ValueError", <<"Invalid isoformat string">>)

IsoParts(s, t) == IsoChecked(IsIsoDate(s) /\ (Len(s) = 10 \/ (Len(s) > 11 /\ IsIsoTime(t))), IsoFields(s, t))

fromisoformat(s) == IsoParts(s, SubSeq(s, 12, Len(s)))

\* faulty variant: the missing components are filled with 1
RECURSIVE pad6_ones(_)
pad6_ones(parts) == IF Len(parts) < 6 THEN pad6_ones(Append(parts, 1)) ELSE parts

\* `while len(parts) < 6: parts.append(0)`
RECURSIVE pad6(_)
pad6(parts) == IF Len(parts) < 6 THEN pad6(Append(parts, 0)) ELSE parts

\* datetime(*parts): a seventh integer is the microsecond, an eighth lands on tzinfo
\* (TypeError after the range checks), more than eight arguments are a TypeError
Constructed(parts, f) ==
    IF Len(parts) > 8 THEN Raise("TypeError", <<"too many arguments">>)
    ELSE IF ~ValidDateTime(f) THEN Raise("ValueError", <<"out of range">>)
    ELSE IF Len(parts) = 8 THEN Raise("TypeError", <<"tzinfo argument">>)
    ELSE Return(datetime(f))

construct(parts) == Constructed(parts, IF Len(parts) = 6 THEN Append(parts, 0) ELSE parts)

\* `parts = [int(p) for p in s.split('-')]`, padded, then `datetime(*parts)`
Primary(texts) == IF \A i \in DOMAIN texts : IsInt(texts[i]) THEN construct(pad6([i \in DOMAIN texts |-> int(texts[i])])) ELSE Raise("ValueError", <<"invalid literal for int()">>)

\* the try block, then `except ValueError` with the ISO fallback; another exception passes
Fallback(primary, iso, as_type) ==
    IF primary.ok THEN Return(IF as_type = "datetime" THEN primary.value ELSE strftime(primary.value))
    ELSE IF primary.exc # "ValueError" THEN primary
    ELSE IF iso.ok THEN Return(IF as_type = "datetime" THEN iso.value ELSE isoformat(iso.value))
    ELSE Raise("ValueError", <<"Invalid date format">>)

user_to_dt(s, as_type) == Fallback(Primary(split(s, "-")), fromisoformat(s), as_type)

\* datetime.timestamp() * 1000 truncated by int(), counted from EpochYear-01-01
RECURSIVE DaysBeforeMonth(_, _)
DaysBeforeMonth(y, m) == IF m <= 1 THEN 0 ELSE DaysBeforeMonth(y, m - 1) + DaysInMonth(y, m - 1)

RECURSIVE DaysBeforeYear(_)
DaysBeforeYear(y) == IF y <= EpochYear THEN 0 ELSE DaysBeforeYear(y - 1) + (IF IsLeap(y - 1) THEN 366 ELSE 365)

timestamp_ms(dt) == ((((DaysBeforeYear(dt.year) + DaysBeforeMonth(dt.year, dt.month) + dt.day - 1) * 24 + dt.hour) * 60 + dt.minute) * 60 + dt.second) * 1000 + dt.microsecond \div 1000

\* datetime.fromtimestamp(ms / 1000) for an instant of EpochYear
MonthOfDay(y, days) == CHOOSE k \in 1..12 : DaysBeforeMonth(y, k) <= days /\ days < DaysBeforeMonth(y, k) + DaysInMonth(y, k)

OnDay(y, m, days, rest) == datetime(<<y, m, days - DaysBeforeMonth(y, m) + 1, rest \div 3600000, (rest \div 60000) % 60, (rest \div 1000) % 60, (rest % 1000) * 1000>>)

fromtimestamp(ms) == OnDay(EpochYear, MonthOfDay(EpochYear, ms \div 86400000), ms \div 86400000, ms % 86400000)

\* --------------------------------------------------------------- the state

VARIABLES
    kind,        \* "ohlcv": a run of fetch_unified_ohclv; "tick": of fetch_unified_tick
    symbol, user_tf, user_start, user_end, api_key, secret_key,   \* the arguments
    source,      \* what the exchange holds: records ordered by time
    pc,          \* where the run stands
    errors,      \* the local list `errors` of the unified fetch
    outcome,     \* what the unified fetch returned or raised, once it has ended
    since, end_ms, all_ohlcv,   \* locals of the exchange adapter (all_ohlcv is `trades` for ticks)
    batch,       \* the page received last (`ohlcv` / `batch`)
    binance_tf,  \* the exchange adapter's local `tf`
    calls,       \* history: the adapters invoked, in order
    results,     \* history: what each invoked adapter returned or raised
    requests     \* history: the requests sent upstream

vars == <<kind, symbol, user_tf, user_start, user_end, api_key, secret_key, source, pc, errors, outcome, since, end_ms, all_ohlcv, batch, binance_tf, calls, results, requests>>

args == <<kind, symbol, user_tf, user_start, user_end, api_key, secret_key, source>>

binance_locals == <<since, end_ms, all_ohlcv, batch, binance_tf>>

\* ------------------------------------------------------------ data frames

\* A frame (pandas DataFrame) is a record: `index` holds the row labels, `multi`
\* tells a (symbol, time) MultiIndex, every other field is a column.
Rows(df) == Len(df.index)

Zeros(n) == [i \in 1..n |-> 0]

\* list(df.index.to_pydatetime())
to_pydatetime(index) == [i \in DOMAIN index |-> fromtimestamp(index[i])]

Column(df, name) == IF name \in DOMAIN df THEN df[name] ELSE Zeros(Rows(df))

\* faulty variant: `if df is None`, an empty frame passes
no_data_none_only(resp) == resp.status = "none"

\* `if df is None or df.empty`
no_data(resp) == resp.status = "none" \/ Rows(resp.frame) = 0

\* `except Exception as e: raise DataProviderError(str(e))`
Wrap(r) == Raise("DataProviderError", r.msg)

\* the historical-feed adapters re-raise an ImportError (`except ImportError: raise`)
WrapUnlessImportError(r) == IF r.exc = "ImportError" THEN Raise(r.exc, r.msg) ELSE Wrap(r)

\* faulty variant: `except DataProviderError` in place of `except Exception`
IsProviderError(r) == r.exc = "DataProviderError"

\* except Exception: every exception the adapters raise derives from Exception
IsException(r) == r.exc \in {"DataProviderError", "ValueError", "TypeError", "ImportError", "KeyError", "NetworkError"}

\* ------------------------------------- HistoricalFeed adapter (Dukascopy)

\* fetch_dukascopy_ohclv: env.import_ok tells whether dukascopy_python imports,
\* env.response is what its fetch() does
fetch_dukascopy_ohclv(sym, tf_tok, start_tok, end_tok, env) ==
    LET tf == user_to_dukascopy_tf(tf_tok)
        start == user_to_dt(start_tok, "datetime")
        end == user_to_dt(end_tok, "datetime")
        df == env.response.frame
    IN  IF ~env.import_ok THEN Raise("ImportError", <<"No module named dukascopy_python">>)
        ELSE IF ~tf.ok THEN Wrap(tf)
        ELSE IF ~start.ok THEN Wrap(start)
        ELSE IF ~end.ok THEN Wrap(end)
        ELSE IF env.response.status = "raise" THEN WrapUnlessImportError(env.response)
        ELSE IF no_data(env.response) THEN Raise("DataProviderError", <<"No Dukascopy data">>)
        ELSE Return([opens |-> df.open, highs |-> df.high, lows |-> df.low, closes |-> df.close, volumes |-> Column(df, "volume"), times |-> to_pydatetime(df.index)])

fetch_dukascopy_ticks(sym, tf_tok, start_tok, end_tok, env) ==
    LET start == user_to_dt(start_tok, "datetime")
        end == user_to_dt(end_tok, "datetime")
        df == env.response.frame
    IN  IF ~env.import_ok THEN Raise("ImportError", <<"No module named dukascopy_python">>)
        ELSE IF ~start.ok THEN Wrap(start)
        ELSE IF ~end.ok THEN Wrap(end)
        ELSE IF env.response.status = "raise" THEN WrapUnlessImportError(env.response)
        ELSE IF no_data(env.response) THEN Raise("DataProviderError", <<"No Dukascopy tick data">>)
        ELSE Return([bid |-> Column(df, "bidPrice"), ask |-> Column(df, "askPrice"), bid_vol |-> Column(df, "bidVolume"), ask_vol |-> Column(df, "askVolume"), real_vol |-> Zeros(Rows(df)), times |-> to_pydatetime(df.index)])

\* faulty variant: fetch() is called with the tokens as given, before they are
\* translated and parsed
dukascopy_request_unparsed(k, sym, tf_tok, start_tok, end_tok, env) ==
    IF env.import_ok THEN <<[provider |-> "dukascopy", symbol |-> upper(strip(sym)), tf |-> tf_tok, start |-> start_tok, end |-> end_tok]>> ELSE <<>>

\* whether the upstream request is reached, and the request then sent
dukascopy_request(k, sym, tf_tok, start_tok, end_tok, env) ==
    LET tf == user_to_dukascopy_tf(tf_tok)
        start == user_to_dt(start_tok, "datetime")
        end == user_to_dt(end_tok, "datetime")
    IN  IF env.import_ok /\ (k = "tick" \/ tf.ok) /\ start.ok /\ end.ok
        THEN <<[provider |-> "dukascopy", symbol |-> upper(strip(sym)), tf |-> IF k = "tick" THEN <<"T", "I", "C", "K">> ELSE tf.value, start |-> start.value, end |-> end.value]>>
        ELSE <<>>

\* ------------------------------------------- Exchange adapter (Binance)

\* the page size: `limit` in fetch_binance_ohclv, the literal 1000 in
\* fetch_binance_ticks; scaled down so that full pages occur within the bounds
limit == 2

\* c[0] of a candle row [timestamp, open, high, low, close, volume]; t['timestamp'] of a trade
Timestamp(k, r) == IF k = "ohlcv" THEN r[1] ELSE r.timestamp

\* an exchange that serves, ordered by time, the first n records at or after the cursor
serve(src, cursor, n) ==
    LET from == SelectSeq(src, LAMBDA r : r.timestamp >= cursor)
    IN  SubSeq(from, 1, IF Len(from) < n THEN Len(from) ELSE n)

Candle(r) == <<r.timestamp, r.open, r.high, r.low, r.close, r.volume>>

\* exchange.fetch_ohlcv(symbol, tf, since, limit) / exchange.fetch_trades(symbol, since=, limit=)
fetch_page(k, src, cursor, n) == LET page == serve(src, cursor, n) IN IF k = "ohlcv" THEN [i \in DOMAIN page |-> Candle(page[i])] ELSE page

\* faulty variant: the timeframe is translated for tick fetches as well
binance_begin_translating(k, tf_tok, start_tok, end_tok) ==
    LET tf == user_to_binance_tf(tf_tok)
        since_str == user_to_dt(start_tok, "iso")
        end_str == user_to_dt(end_tok, "iso")
    IN  IF ~tf.ok THEN Wrap(tf)
        ELSE IF ~since_str.ok THEN Wrap(since_str)
        ELSE IF ~end_str.ok THEN Wrap(end_str)
        ELSE Return([tf |-> IF k = "ohlcv" THEN tf.value ELSE <<>>, since |-> timestamp_ms(fromisoformat(since_str.value).value), end_ms |-> timestamp_ms(fromisoformat(end_str.value).value)])

\* the lines before the loop: the timeframe (OHLCV only) and the two bounds in
\* milliseconds, each date rendered to text and parsed again as the code does
binance_begin(k, tf_tok, start_tok, end_tok) ==
    LET tf == user_to_binance_tf(tf_tok)
        since_str == user_to_dt(start_tok, "iso")
        end_str == user_to_dt(end_tok, "iso")
    IN  IF k = "ohlcv" /\ ~tf.ok THEN Wrap(tf)
        ELSE IF ~since_str.ok THEN Wrap(since_str)
        ELSE IF ~end_str.ok THEN Wrap(end_str)
        ELSE Return([tf |-> IF k = "ohlcv" THEN tf.value ELSE <<>>, since |-> timestamp_ms(fromisoformat(since_str.value).value), end_ms |-> timestamp_ms(fromisoformat(end_str.value).value)])

\* faulty variant: `while since <= end_ms`
loop_guard_inclusive(cursor, end) == cursor <= end

\* `while since < end_ms`
loop_guard(cursor, end) == cursor < end

\* `filtered = [c for c in ohlcv if c[0] <= end_ms]`
filtered(page, end) == SelectSeq(page, LAMBDA c : c[1] <= end)

\* `for t in batch: if t['timestamp'] > end_ms: break; trades.append(t)`
RECURSIVE upto_end(_, _)
upto_end(page, end) == IF page = <<>> \/ Head(page).timestamp > end THEN <<>> ELSE <<Head(page)>> \o upto_end(Tail(page), end)

kept(k, page, end) == IF k = "ohlcv" THEN filtered(page, end) ELSE upto_end(page, end)

\* `if len(ohlcv) < limit: break` (an empty page breaks before it)
short_page(page) == Len(page) < limit

\* `since = ohlcv[-1][0] + 1`
next_since(k, page) == Timestamp(k, page[Len(page)]) + 1

\* faulty variant: the two volume branches are swapped
synthesize_swapped(t) == [bid |-> t.price, ask |-> t.price, bid_vol |-> IF t.side = "buy" THEN t.amount ELSE 0, ask_vol |-> IF t.side = "buy" THEN 0 ELSE t.amount, real_vol |-> t.amount, time |-> fromtimestamp(t.timestamp)]

\* the tick synthesis of fetch_binance_ticks for one trade
synthesize(t) == [bid |-> t.price, ask |-> t.price, bid_vol |-> IF t.side = "buy" THEN 0 ELSE t.amount, ask_vol |-> IF t.side = "buy" THEN t.amount ELSE 0, real_vol |-> t.amount, time |-> fromtimestamp(t.timestamp)]

\* the lines after the loop
binance_end(k, all) ==
    LET ticks == [i \in DOMAIN all |-> synthesize(all[i])]
    IN  IF all = <<>> THEN Raise("DataProviderError", <<IF k = "ohlcv" THEN "No Binance data" ELSE "No Binance tick data">>)
        ELSE IF k = "ohlcv" THEN Return([opens |-> [i \in DOMAIN all |-> all[i][2]], highs |-> [i \in DOMAIN all |-> all[i][3]], lows |-> [i \in DOMAIN all |-> all[i][4]], closes |-> [i \in DOMAIN all |-> all[i][5]], volumes |-> [i \in DOMAIN all |-> all[i][6]], times |-> [i \in DOMAIN all |-> fromtimestamp(all[i][1])]])
        ELSE Return([bid |-> [i \in DOMAIN all |-> ticks[i].bid], ask |-> [i \in DOMAIN all |-> ticks[i].ask], bid_vol |-> [i \in DOMAIN all |-> ticks[i].bid_vol], ask_vol |-> [i \in DOMAIN all |-> ticks[i].ask_vol], real_vol |-> [i \in DOMAIN all |-> ticks[i].real_vol], times |-> [i \in DOMAIN all |-> ticks[i].time]])

\* ----------------------------------------------- Broker adapter (Alpaca)

\* `'/' in symbol or symbol in ['BTCUSD', 'ETHUSD']`
is_crypto(sym) == (\E i \in DOMAIN sym : sym[i] = "/") \/ sym \in {<<"B", "T", "C", "U", "S", "D">>, <<"E", "T", "H", "U", "S", "D">>}

TimeFrame(amount, unit) == [amount |-> amount, unit |-> unit]

\* tf_map.get(tf_str, TimeFrame.Minute)
tf_map_get(tf_str) ==
    CASE tf_str = <<"1", "M", "i", "n">> -> TimeFrame(1, "Minute")
      [] tf_str = <<"5", "M", "i", "n">> -> TimeFrame(5, "Minute")
      [] tf_str = <<"1", "5", "M", "i", "n">> -> TimeFrame(15, "Minute")
      [] tf_str = <<"3", "0", "M", "i", "n">> -> TimeFrame(30, "Minute")
      [] tf_str = <<"1", "H", "o", "u", "r">> -> TimeFrame(1, "Hour")
      [] tf_str = <<"1", "D", "a", "y">> -> TimeFrame(1, "Day")
      [] tf_str = <<"1", "W", "e", "e", "k">> -> TimeFrame(1, "Week")
      [] OTHER -> TimeFrame(1, "Minute")

\* the rows of a frame at the given positions, in that order
take(df, at) == [c \in DOMAIN df |-> IF c = "multi" THEN df[c] ELSE [i \in DOMAIN at |-> df[c][at[i]]]]

\* bars.loc[symbol] on a (symbol, time) MultiIndex: the rows of that symbol, indexed by time
loc(df, sym) ==
    LET at == SelectSeq([i \in 1..Rows(df) |-> i], LAMBDA i : df.index[i][1] = sym)
        rows == take(df, at)
    IN  [rows EXCEPT !.multi = FALSE, !.index = [i \in DOMAIN at |-> df.index[at[i]][2]]]

\* bars.sort_index(): the positions of the rows in ascending index order (stable)
RECURSIVE sorted_positions(_, _)
sorted_positions(index, left) ==
    IF left = {} THEN <<>>
    ELSE LET i == CHOOSE j \in left : \A k \in left : index[j] < index[k] \/ (index[j] = index[k] /\ j <= k)
         IN  <<i>> \o sorted_positions(index, left \ {i})

sort_index(df) == take(df, sorted_positions(df.index, DOMAIN df.index))

\* the request the adapter builds, when it gets that far
alpaca_request(k, sym, tf_tok, start_tok, end_tok) ==
    LET s == upper(strip(sym))
        start == user_to_dt(start_tok, "iso")
        end == user_to_dt(end_tok, "iso")
        tf_str == user_to_alpaca_tf(tf_tok)
    IN  [provider |-> "alpaca", asset |-> IF is_crypto(s) THEN "crypto" ELSE "stock", symbol |-> s,
         timeframe |-> IF k = "ohlcv" THEN tf_map_get(tf_str.value) ELSE TimeFrame(0, "Trade"),
         start |-> fromisoformat(start.value).value, end |-> fromisoformat(end.value).value,
         feed |-> IF k = "ohlcv" /\ ~is_crypto(s) THEN "sip" ELSE "default"]

\* the lines of both broker adapters up to the upstream call
alpaca_begin(k, tf_tok, start_tok, end_tok, env) ==
    LET tf_str == user_to_alpaca_tf(tf_tok)
        start == user_to_dt(start_tok, "iso")
        end == user_to_dt(end_tok, "iso")
    IN  IF ~env.import_ok THEN Raise("ImportError", <<"No module named alpaca">>)
        ELSE IF k = "ohlcv" /\ ~tf_str.ok THEN Wrap(tf_str)
        ELSE IF ~start.ok THEN Wrap(start)
        ELSE IF ~end.ok THEN Wrap(end)
        ELSE Return(TRUE)

fetch_alpaca_ohclv(sym, tf_tok, start_tok, end_tok, key, secret, env) ==
    LET s == upper(strip(sym))
        begin == alpaca_begin("ohlcv", tf_tok, start_tok, end_tok, env)
        df == env.response.frame
        one == IF df.multi THEN loc(df, s) ELSE df
        bars == sort_index(one)
    IN  IF ~begin.ok THEN begin
        ELSE IF env.response.status = "raise" THEN Wrap(env.response)
        ELSE IF Rows(df) = 0 THEN Raise("DataProviderError", <<"No Alpaca data">>)
        ELSE IF df.multi /\ Rows(one) = 0 THEN Raise("DataProviderError", <<"KeyError">>)
        ELSE Return([opens |-> bars.open, highs |-> bars.high, lows |-> bars.low, closes |-> bars.close, volumes |-> bars.volume, times |-> to_pydatetime(bars.index)])

fetch_alpaca_ticks(sym, tf_tok, start_tok, end_tok, key, secret, env) ==
    LET s == upper(strip(sym))
        begin == alpaca_begin("tick", tf_tok, start_tok, end_tok, env)
        df == env.response.frame
        trades == IF df.multi THEN loc(df, s) ELSE df
        price == Column(trades, "price")
        size == Column(trades, "size")
    IN  IF ~begin.ok THEN begin
        ELSE IF env.response.status = "raise" THEN Wrap(env.response)
        ELSE IF Rows(df) = 0 THEN Raise("DataProviderError", <<"No Alpaca tick (trade) data">>)
        ELSE IF df.multi /\ Rows(trades) = 0 THEN Raise("DataProviderError", <<"KeyError">>)
        ELSE Return([bid |-> price, ask |-> price, bid_vol |-> Zeros(Rows(trades)), ask_vol |-> Zeros(Rows(trades)), real_vol |-> size, times |-> to_pydatetime(trades.index)])

\* ------------------------------------------------ Fallback Orchestrator

\* `except Exception as e` around each adapter call
caught(r) == IsException(r)

\* errors.append(f"Dukascopy: {e}")
entry(name, r) == [name |-> name, reason |-> r.msg]

\* faulty variant: the tick fetch returns the records without the adapter's name
unified_return_untagged(k, tag, r) == [records |-> r.value]

\* `return fetch_..._ohclv(...)` / `return "dukascopy", fetch_..._ticks(...)`
unified_return(k, tag, r) == IF k = "tick" THEN [provider |-> tag, records |-> r.value] ELSE [records |-> r.value]

\* faulty variant: the message is built from the last error alone
aggregate_last(errs) == Raise("DataProviderError", [prefix |-> "All providers failed", errors |-> SubSeq(errs, Len(errs), Len(errs))])

\* raise DataProviderError(f"All providers failed: {'; '.join(errors)}")
aggregate(errs) == Raise("DataProviderError", [prefix |-> "All providers failed", errors |-> errs])

\* faulty variant: the `return` in front of the adapter call is lost, the run falls through
after_fallthrough(r, next) == IF ~r.ok /\ ~caught(r) THEN "done" ELSE next

\* faulty variant: after the last adapter has failed the run starts over
after_restart(r, next) == IF r.ok \/ ~caught(r) THEN "done" ELSE IF next = "exhausted" THEN "dukascopy" ELSE next

\* where a run goes after an adapter returned (r.ok) or raised
after(r, next) == IF r.ok \/ ~caught(r) THEN "done" ELSE next

\* faulty variant: `if api_key or secret_key`
has_keys_either(key, secret) == key # None \/ secret # None

\* `if api_key and secret_key`
has_keys(key, secret) == key # None /\ secret # None

\* the else branch of the keys test: fetch_unified_ohclv appends an entry,
\* fetch_unified_tick has no else branch
skipped(k, errs) == IF k = "ohlcv" THEN Append(errs, [name |-> "Alpaca", reason |-> <<"Skipped (No keys)">>]) ELSE errs

NoOutcome == [ok |-> FALSE, exc |-> "pending", msg |-> <<>>]

\* the try/except around one adapter call, r being what the adapter did
Settle(name, tag, r, next) ==
    /\ results' = Append(results, r)
    /\ pc' = after(r, next)
    /\ errors' = IF ~r.ok /\ caught(r) THEN Append(errors, entry(name, r)) ELSE errors
    /\ outcome' = IF r.ok THEN Return(unified_return(kind, tag, r)) ELSE IF caught(r) THEN outcome ELSE r

\* -------------------------------------------------------- the environment

MaxRecords == 4

NetworkError == [status |-> "raise", exc |-> "NetworkError", msg |-> <<"connection failed">>]

Absent == [status |-> "none"]

Frame(df) == [status |-> "frame", frame |-> df]

\* what the upstream answered, for the history
Answer(resp) == IF resp.status = "frame" THEN (IF Rows(resp.frame) = 0 THEN "empty" ELSE "records") ELSE resp.status

BarsFrame(index) == [index |-> index, multi |-> FALSE, open |-> [i \in DOMAIN index |-> 100 + i], high |-> [i \in DOMAIN index |-> 102 + i], low |-> [i \in DOMAIN index |-> 99], close |-> [i \in DOMAIN index |-> 101 + i], volume |-> [i \in DOMAIN index |-> 5 * i]]

BarsFrameNoVolume(index) == [index |-> index, multi |-> FALSE, open |-> [i \in DOMAIN index |-> 100 + i], high |-> [i \in DOMAIN index |-> 102 + i], low |-> [i \in DOMAIN index |-> 99], close |-> [i \in DOMAIN index |-> 101 + i]]

QuotesFrame(index) == [index |-> index, multi |-> FALSE, bidPrice |-> [i \in DOMAIN index |-> 100 + i], askPrice |-> [i \in DOMAIN index |-> 101 + i], bidVolume |-> [i \in DOMAIN index |-> i], askVolume |-> [i \in DOMAIN index |-> 2 * i]]

TradesFrame(index) == [index |-> index, multi |-> FALSE, price |-> [i \in DOMAIN index |-> 100 + i], size |-> [i \in DOMAIN index |-> 3 * i]]

\* the same rows under a (symbol, time) MultiIndex
Multi(df, sym) == [df EXCEPT !.multi = TRUE, !.index = [i \in DOMAIN df.index |-> <<sym, df.index[i]>>]]

\* what the upstream of an adapter may do (a list: frames of different shapes)
DukascopyResponses(k) ==
    IF k = "ohlcv" THEN <<NetworkError, Absent, Frame(BarsFrame(<<>>)), Frame(BarsFrame(<<1000, 2000>>)), Frame(BarsFrameNoVolume(<<1000>>))>>
    ELSE <<NetworkError, Absent, Frame(QuotesFrame(<<>>)), Frame(QuotesFrame(<<1000, 1001>>))>>

AlpacaResponses(k, sym) ==
    IF k = "ohlcv" THEN <<NetworkError, Frame(BarsFrame(<<>>)), Frame(BarsFrame(<<2000, 1000>>)), Frame(Multi(BarsFrame(<<1000, 2000>>), sym))>>
    ELSE <<NetworkError, Frame(TradesFrame(<<>>)), Frame(TradesFrame(<<2000, 1000>>)), Frame(Multi(TradesFrame(<<1000, 2000>>), sym))>>

\* the records an exchange holds at the given times: candles (one per timestamp)
\* or trades (several may share a timestamp)
CandleAt(t) == [timestamp |-> t, open |-> 100, high |-> 102, low |-> 99, close |-> 101, volume |-> 7]

\* t['side'] is 'buy', 'sell', or something else (None when the exchange does not tell)
TradeAt(i, t) == [id |-> i, timestamp |-> t, price |-> 100 + i, amount |-> i, side |-> IF i % 3 = 1 THEN "buy" ELSE IF i % 3 = 2 THEN "sell" ELSE "none"]

Held(k, times) == [i \in DOMAIN times |-> IF k = "ohlcv" THEN CandleAt(times[i]) ELSE TradeAt(i, times[i])]

\* the time-ordered sequences of at most n timestamps out of a pool
Ordered(k, pool, n) == {ts \in UNION {[1..m -> pool] : m \in 0..n} : \A i \in 1..(Len(ts) - 1) : IF k = "ohlcv" THEN ts[i] < ts[i + 1] ELSE ts[i] <= ts[i + 1]}

\* ------------------------------------------------------------ the inputs

TfTokens == {<<"1", "m", "i", "n">>, <<" ", "H", "1">>, <<"2", "h">>, <<"1", "x", "y", "z">>, <<"1", "y", "e", "a", "r">>, <<"t", "i", "c", "k">>}

GoodStart == <<"2", "0", "2", "4", "-", "0", "1", "-", "0", "1", "-", "0", "0", "-", "0", "0", "-", "0", "1">>

GoodEnd == <<"2", "0", "2", "4", "-", "0", "1", "-", "0", "1", "-", "0", "0", "-", "0", "0", "-", "0", "2">>

StartTokens == {GoodStart, <<"2", "0", "2", "4", "-", "1", "3", "-", "0", "1">>}

EndTokens == {GoodEnd, <<"2", "0", "2", "4", "-", "0", "1", "-", "0", "1", "T", "0", "0", ":", "0", "0", ":", "0", "2">>, <<"2", "0", "2", "4">>}

Symbols == {<<" ", "b", "t", "c", "/", "u", "s", "d", "t">>, <<"A", "A", "P", "L">>}

Keys == {None, <<"k">>}

\* the timestamps around the two bounds of [GoodStart, GoodEnd]
Pool == {999, 1000, 1001, 1999, 2000, 2001}

\* runs over every combination of arguments, against a few exchanges
InitArguments ==
    /\ kind \in {"ohlcv", "tick"}
    /\ symbol \in Symbols
    /\ user_tf \in TfTokens
    /\ user_start \in StartTokens
    /\ user_end \in EndTokens
    /\ api_key \in Keys
    /\ secret_key \in Keys
    /\ source \in {Held(kind, ts) : ts \in {<<>>, <<1000, 2000>>, <<2001>>}}

\* runs with well-formed arguments, against every exchange within the bounds
InitExchange ==
    /\ kind \in {"ohlcv", "tick"}
    /\ symbol = <<" ", "b", "t", "c", "/", "u", "s", "d", "t">>
    /\ user_tf = <<"1", "m", "i", "n">>
    /\ user_start = GoodStart
    /\ user_end = GoodEnd
    /\ api_key = None
    /\ secret_key = None
    /\ source \in {Held(kind, ts) : ts \in Ordered(kind, Pool, MaxRecords)}

Init ==
    /\ InitArguments \/ InitExchange
    /\ pc = "import"
    /\ errors = <<>>
    /\ outcome = NoOutcome
    /\ since = 0
    /\ end_ms = 0
    /\ all_ohlcv = <<>>
    /\ batch = <<>>
    /\ binance_tf = <<>>
    /\ calls = <<>>
    /\ results = <<>>
    /\ requests = <<>>

\* ------------------------------------------------------------- the steps

\* the module of the unified fetch is loaded: `import ccxt` (and pandas) in its first
\* lines; without the package the import of the module raises and nothing of it runs
LoadModule ==
    /\ pc = "import"
    /\ \E ccxt_ok \in BOOLEAN : pc' = IF ccxt_ok THEN "dukascopy" ELSE "import_failed"
    /\ UNCHANGED <<args, binance_locals, errors, outcome, calls, results, requests>>

\* the first try block of the unified fetch: the HistoricalFeed adapter
TryDukascopy ==
    /\ pc = "dukascopy"
    /\ \E ok \in BOOLEAN, n \in DOMAIN DukascopyResponses(kind) :
        LET resp == DukascopyResponses(kind)[n]
            env == [import_ok |-> ok, response |-> resp]
            r == IF kind = "ohlcv" THEN fetch_dukascopy_ohclv(symbol, user_tf, user_start, user_end, env) ELSE fetch_dukascopy_ticks(symbol, user_tf, user_start, user_end, env)
            sent == dukascopy_request(kind, symbol, user_tf, user_start, user_end, env)
        IN  /\ calls' = Append(calls, "dukascopy")
            /\ requests' = requests \o [i \in DOMAIN sent |-> [provider |-> "dukascopy", req |-> sent[i], answer |-> Answer(resp)]]
            /\ Settle("Dukascopy", "dukascopy", r, "binance")
    /\ UNCHANGED <<args, binance_locals>>

\* the second try block: the Exchange adapter up to its loop
BeginBinance ==
    /\ pc = "binance"
    /\ calls' = Append(calls, "binance")
    /\ LET b == binance_begin(kind, user_tf, user_start, user_end)
       IN  IF b.ok
           THEN /\ since' = b.value.since
                /\ end_ms' = b.value.end_ms
                /\ binance_tf' = b.value.tf
                /\ all_ohlcv' = <<>>
                /\ batch' = <<>>
                /\ pc' = IF loop_guard(b.value.since, b.value.end_ms) THEN "binance_page" ELSE "binance_end"
                /\ UNCHANGED <<errors, outcome, results>>
           ELSE /\ Settle("Binance", "binance", b, "alpaca")
                /\ UNCHANGED binance_locals
    /\ UNCHANGED <<args, requests>>

\* one iteration of the loop: a page is requested; the exchange answers or the call raises
RequestPage ==
    /\ pc = "binance_page"
    /\ \E answers \in BOOLEAN :
        LET page == fetch_page(kind, source, since, limit)
            req == [symbol |-> remove(upper(strip(symbol)), "/"), tf |-> binance_tf, since |-> since, limit |-> limit]
            stop == page = <<>> \/ short_page(page)
            cursor == IF stop THEN since ELSE next_since(kind, page)
        IN  IF answers
            THEN /\ requests' = Append(requests, [provider |-> "binance", req |-> req, answer |-> IF page = <<>> THEN "empty" ELSE "records"])
                 /\ batch' = page
                 /\ all_ohlcv' = all_ohlcv \o kept(kind, page, end_ms)
                 /\ since' = cursor
                 /\ pc' = IF ~stop /\ loop_guard(cursor, end_ms) THEN "binance_page" ELSE "binance_end"
                 /\ UNCHANGED <<end_ms, binance_tf, errors, outcome, results>>
            ELSE /\ requests' = Append(requests, [provider |-> "binance", req |-> req, answer |-> "raise"])
                 /\ Settle("Binance", "binance", Wrap(NetworkError), "alpaca")
                 /\ UNCHANGED binance_locals
    /\ UNCHANGED <<args, calls>>

\* the Exchange adapter after its loop
FinishBinance ==
    /\ pc = "binance_end"
    /\ Settle("Binance", "binance", binance_end(kind, all_ohlcv), "alpaca")
    /\ UNCHANGED <<args, binance_locals, calls, requests>>

\* the third try block: the Broker adapter, when both keys are given
TryAlpaca ==
    /\ pc = "alpaca"
    /\ has_keys(api_key, secret_key)
    /\ \E ok \in BOOLEAN, n \in DOMAIN AlpacaResponses(kind, upper(strip(symbol))) :
        LET resp == AlpacaResponses(kind, upper(strip(symbol)))[n]
            env == [import_ok |-> ok, response |-> resp]
            r == IF kind = "ohlcv" THEN fetch_alpaca_ohclv(symbol, user_tf, user_start, user_end, api_key, secret_key, env) ELSE fetch_alpaca_ticks(symbol, user_tf, user_start, user_end, api_key, secret_key, env)
            reached == alpaca_begin(kind, user_tf, user_start, user_end, env).ok
        IN  /\ calls' = Append(calls, "alpaca")
            /\ requests' = IF reached THEN Append(requests, [provider |-> "alpaca", req |-> alpaca_request(kind, symbol, user_tf, user_start, user_end), answer |-> Answer(resp)]) ELSE requests
            /\ Settle("Alpaca", "alpaca", r, "exhausted")
    /\ UNCHANGED <<args, binance_locals>>

\* the keys test fails: the Broker adapter is not called
SkipAlpaca ==
    /\ pc = "alpaca"
    /\ ~has_keys(api_key, secret_key)
    /\ errors' = skipped(kind, errors)
    /\ pc' = "exhausted"
    /\ UNCHANGED <<args, binance_locals, outcome, calls, results, requests>>

\* the last lines: every provider failed
RaiseAggregate ==
    /\ pc = "exhausted"
    /\ outcome' = aggregate(errors)
    /\ pc' = "done"
    /\ UNCHANGED <<args, binance_locals, errors, calls, results, requests>>

Next == LoadModule \/ TryDukascopy \/ BeginBinance \/ RequestPage \/ FinishBinance \/ TryAlpaca \/ SkipAlpaca \/ RaiseAggregate

Spec == Init /\ [][Next]_vars

\* ------------------------------------------------------------- the claims

Order == <<"dukascopy", "binance", "alpaca">>

ProviderName(tag) == CASE tag = "dukascopy" -> "Dukascopy" [] tag = "binance" -> "Binance" [] tag = "alpaca" -> "Alpaca"

IsPrefix(s, t) == Len(s) <= Len(t) /\ \A i \in DOMAIN s : s[i] = t[i]

\* C1: the adapters are invoked in the order Dukascopy, Binance, Alpaca; an adapter
\* is invoked only after each adapter before it has failed; after an adapter has
\* returned successfully no other adapter is invoked.
C1_FixedOrder ==
    /\ IsPrefix(calls, Order)
    /\ \A i \in DOMAIN calls : \A j \in 1..(i - 1) : j \in DOMAIN results /\ ~results[j].ok
    /\ \A i \in DOMAIN results : results[i].ok => Len(calls) = i /\ pc = "done"

\* the third adapter succeeded after the first two had failed
C1_Witness == calls = Order /\ Len(results) = 3 /\ results[3].ok /\ pc = "done"

\* C2: the unified fetch raises the aggregate DataProviderError only when every
\* adapter it invoked has failed, and the aggregate then holds, in the order of
\* the attempts, one (provider name, reason) entry for each of these failures.
C2_AggregateListsEveryFailure ==
    (pc = "done" /\ ~outcome.ok) =>
        /\ outcome.exc = "DataProviderError"
        /\ Len(results) = Len(calls)
        /\ \A i \in DOMAIN results : ~results[i].ok
        /\ Len(outcome.msg.errors) >= Len(calls)
        /\ \A i \in DOMAIN calls : outcome.msg.errors[i] = [name |-> ProviderName(calls[i]), reason |-> results[i].msg]

\* the aggregate was raised after all three adapters had been invoked and had failed
C2_Witness == pc = "done" /\ ~outcome.ok /\ calls = Order /\ Len(outcome.msg.errors) = 3

\* C3: whatever exception an adapter raises, the unified fetch records it under the
\* adapter's name and goes on to the next adapter; the only exception that leaves
\* the unified fetch is the aggregate DataProviderError.
C3_EveryExceptionIsCaptured ==
    /\ \A i \in DOMAIN results : ~results[i].ok => i \in DOMAIN errors /\ errors[i] = [name |-> ProviderName(calls[i]), reason |-> results[i].msg]
    /\ (Len(results) = 1 /\ ~results[1].ok) => pc \in {"binance", "binance_page", "binance_end"}
    /\ (Len(results) = 2 /\ ~results[2].ok) => pc \in {"alpaca", "exhausted", "done"}
    /\ (Len(results) = 2 /\ ~results[2].ok /\ has_keys(api_key, secret_key)) => pc = "alpaca"
    /\ (pc = "done" /\ ~outcome.ok) => outcome.exc = "DataProviderError" /\ outcome.msg.prefix = "All providers failed" /\ outcome.msg.errors = errors

\* an ImportError of the first adapter and a wrapped error of the second were both
\* recorded, and the third adapter was invoked
C3_Witness == calls = Order /\ Len(results) >= 2 /\ results[1].exc = "ImportError" /\ results[2].exc = "DataProviderError" /\ Len(errors) >= 2

\* a timeframe token no translation accepts, or a date token user_to_dt rejects
MalformedTimeframe == ~user_to_dukascopy_tf(user_tf).ok /\ ~user_to_binance_tf(user_tf).ok /\ ~user_to_alpaca_tf(user_tf).ok

MalformedDate == ~user_to_dt(user_start, "datetime").ok \/ ~user_to_dt(user_end, "datetime").ok

Malformed == (kind = "ohlcv" /\ MalformedTimeframe) \/ MalformedDate

\* C4: with a malformed timeframe or date token the call fails with a format error
\* at once: no adapter is attempted, nothing is recorded in the aggregate, and the
\* error that leaves the unified fetch is the format error (ValueError).
C4_FormatErrorFailsFast ==
    Malformed =>
        /\ calls = <<>>
        /\ errors = <<>>
        /\ pc = "done" => ~outcome.ok /\ outcome.exc = "ValueError"

C6_AggregateNamesAllThree ==
    (pc = "done" /\ ~outcome.ok) =>
        /\ \A name \in {"Dukascopy", "Binance", "Alpaca"} : \E i \in DOMAIN outcome.msg.errors : outcome.msg.errors[i].name = name
        /\ ~has_keys(api_key, secret_key) =>
            /\ \A i \in DOMAIN calls : calls[i] # "alpaca"
            /\ \E i \in DOMAIN outcome.msg.errors : outcome.msg.errors[i] = [name |-> "Alpaca", reason |-> <<"Skipped (No keys)">>]

\* the adapter call that a request of the history belongs to
CallOf(provider) == CHOOSE i \in DOMAIN calls : calls[i] = provider

ZeroRecords(i) == requests[i].answer \in {"none", "empty"}

\* C7: an adapter whose upstream answers with zero records and no exception fails
\* with a provider error, the failure is recorded under its name and the next
\* adapter gets its turn; no adapter and no unified fetch returns an empty sequence.
C7_EmptyIsFailure ==
    /\ \A i \in DOMAIN results : results[i].ok => Len(results[i].value.times) > 0
    /\ (pc = "done" /\ outcome.ok) => Len(outcome.value.records.times) > 0
    /\ \A i \in DOMAIN requests : (ZeroRecords(i) /\ requests[i].provider # "binance") =>
        LET c == CallOf(requests[i].provider)
        IN  /\ c \in DOMAIN results
            /\ results[c] = Raise("DataProviderError", results[c].msg)
            /\ errors[c] = [name |-> ProviderName(calls[c]), reason |-> results[c].msg]
            /\ pc # calls[c]
            /\ (pc = "done" /\ c < 3) => Len(calls) > c \/ ~has_keys(api_key, secret_key)
    /\ (Len(results) >= 2 /\ all_ohlcv = <<>>) =>
        /\ results[2] = Raise("DataProviderError", results[2].msg)
        /\ errors[2] = [name |-> "Binance", reason |-> results[2].msg]
        /\ pc \in {"alpaca", "exhausted", "done"}

\* the first adapter's upstream answered with an empty frame, the exchange with an
\* empty page, and the third adapter then returned records
C7_Witness ==
    /\ pc = "done" /\ outcome.ok /\ calls = Order
    /\ \E i, j \in DOMAIN requests : requests[i].provider = "dukascopy" /\ requests[i].answer = "empty" /\ requests[j].provider = "binance" /\ requests[j].answer = "empty"

\* the bounds of the pagination in milliseconds, as the adapter computed them
StartMs == binance_begin(kind, user_tf, user_start, user_end).value.since

Key(r) == IF kind = "ohlcv" THEN r[1] ELSE r.id

Aggregated(r) == \E i \in DOMAIN all_ohlcv : all_ohlcv[i] = IF kind = "ohlcv" THEN Candle(r) ELSE r

\* C8: when the pagination loop has ended, the aggregated records hold no record
\* twice, hold every record of the source at the timestamps start and end, and
\* hold no record later than end.
C8_PaginationBounds ==
    pc = "binance_end" =>
        /\ \A i, j \in DOMAIN all_ohlcv : Key(all_ohlcv[i]) = Key(all_ohlcv[j]) => i = j
        /\ \A i \in DOMAIN source : source[i].timestamp \in {StartMs, end_ms} => Aggregated(source[i])
        /\ \A i \in DOMAIN all_ohlcv : Timestamp(kind, all_ohlcv[i]) <= end_ms

\* C9: when the pagination loop has ended, every record the source holds with a
\* timestamp in [start, end] is among the aggregated records, records that share
\* the timestamp of the last record of a full page included.
C9_PaginationLossless ==
    pc = "binance_end" =>
        \A i \in DOMAIN source : (StartMs <= source[i].timestamp /\ source[i].timestamp <= end_ms) => Aggregated(source[i])

\* a page request is added to the history by this step
PageRequested == Len(requests') = Len(requests) + 1 /\ requests'[Len(requests')].provider = "binance"

\* the latest request was a page request and the exchange answered it
Received == requests # <<>> /\ requests[Len(requests)].provider = "binance" /\ requests[Len(requests)].answer # "raise"

Stopped == (Received /\ Len(batch) < limit) \/ (Len(calls) >= 2 /\ since >= end_ms)

\* C10: after a page shorter than the page size, or once the cursor has reached or
\* passed end, no further page is requested; until then the next step requests a
\* page, with a cursor one past the timestamp of the last record received.
C10_LoopStops ==
    [][/\ Stopped => ~PageRequested
       /\ (Received /\ ~Stopped) => PageRequested
       /\ (Received /\ PageRequested) => requests'[Len(requests')].req.since = Timestamp(kind, batch[Len(batch)]) + 1]_vars

\* three pages were requested: two full ones, then the loop stopped
C10_Witness ==
    /\ pc = "binance_end" /\ Len(requests) = 3
    /\ \A i \in DOMAIN requests : requests[i].provider = "binance" /\ requests[i].answer # "raise"

\* the exchange adapter returned ticks: it is the second adapter called
ExchangeTicks == kind = "tick" /\ Len(results) >= 2 /\ results[2].ok

\* the broker adapter returned ticks: it is the third adapter called
BrokerTicks == kind = "tick" /\ Len(results) = 3 /\ results[3].ok

\* C11: in the ticks the exchange adapter returns, tick i is made of trade i: bid
\* and ask are the trade's price, the trade volume is its size; a buy puts the size
\* in ask_volume and zero in bid_volume, a sell the size in bid_volume and zero in
\* ask_volume.
C11_TickSynthesis ==
    ExchangeTicks =>
        /\ \A f \in {"bid", "ask", "bid_vol", "ask_vol", "real_vol", "times"} : Len(results[2].value[f]) = Len(all_ohlcv)
        /\ \A i \in DOMAIN all_ohlcv :
            /\ results[2].value.bid[i] = all_ohlcv[i].price
            /\ results[2].value.ask[i] = all_ohlcv[i].price
            /\ results[2].value.real_vol[i] = all_ohlcv[i].amount
            /\ all_ohlcv[i].side = "buy" => results[2].value.ask_vol[i] = all_ohlcv[i].amount /\ results[2].value.bid_vol[i] = 0
            /\ all_ohlcv[i].side = "sell" => results[2].value.bid_vol[i] = all_ohlcv[i].amount /\ results[2].value.ask_vol[i] = 0

\* ticks were returned for a buy and for a sell
C11_Witness == ExchangeTicks /\ \E i, j \in DOMAIN all_ohlcv : all_ohlcv[i].side = "buy" /\ all_ohlcv[j].side = "sell"

\* C12: a trade whose side is neither buy nor sell gives a tick with bid_volume 0,
\* ask_volume 0 and the trade's size as trade volume, from the exchange adapter as
\* from the broker adapter (whose trades carry no side).
C12_UnknownSide ==
    /\ ExchangeTicks => \A i \in DOMAIN all_ohlcv : all_ohlcv[i].side \notin {"buy", "sell"} =>
        /\ results[2].value.bid_vol[i] = 0
        /\ results[2].value.ask_vol[i] = 0
        /\ results[2].value.real_vol[i] = all_ohlcv[i].amount
    /\ BrokerTicks => \A i \in DOMAIN results[3].value.times :
        /\ results[3].value.bid_vol[i] = 0
        /\ results[3].value.ask_vol[i] = 0
        /\ results[3].value.real_vol[i] = 3 * i

\* ------------------------------------- the timeframe translator on its own

\* how many translations one run makes
MaxTranslations == 2

\* the keys of the unit tables: every spelling some provider table lists
Spellings == {dukascopy_units[i][1] : i \in DOMAIN dukascopy_units} \cup {binance_units[i][1] : i \in DOMAIN binance_units} \cup {alpaca_units[i][1] : i \in DOMAIN alpaca_units}

\* unit words no table lists: two that begin with a listed letter, two that do not
UnlistedUnits == {<<"h", "e", "l", "l", "o">>, <<"m", "x">>, <<"x", "y", "z">>, <<"q">>}

Counts == {<<"1">>, <<"1", "5">>}

\* tokens of both grammars, and a few that are no grammar's
TfInputs ==
    {c \o u : c \in Counts, u \in Spellings \cup UnlistedUnits}
    \cup {u \o c : c \in Counts, u \in Spellings \cup UnlistedUnits}
    \cup {<<>>, <<"1", "5">>, <<"t", "i", "c", "k">>, <<" ", "H", "1", " ">>, <<"1", "5", "M", "i", "n">>, <<"1", "-", "h">>}
    \cup {<<"0", "m", "i", "n">>, <<"m", "i", "n", "0">>, <<"0", "0", "h">>}

Providers == {"dukascopy", "binance", "alpaca"}

user_to_tf(provider, tf) ==
    CASE provider = "dukascopy" -> user_to_dukascopy_tf(tf)
      [] provider = "binance" -> user_to_binance_tf(tf)
      [] provider = "alpaca" -> user_to_alpaca_tf(tf)

InitTf ==
    /\ kind = "translate"
    /\ user_tf \in TfInputs
    /\ symbol = <<>> /\ user_start = <<>> /\ user_end = <<>> /\ api_key = None /\ secret_key = None
    /\ source = <<>>
    /\ pc = "translate"
    /\ errors = <<>>
    /\ outcome = NoOutcome
    /\ since = 0 /\ end_ms = 0 /\ all_ohlcv = <<>> /\ batch = <<>> /\ binance_tf = <<>>
    /\ calls = <<>>
    /\ results = <<>>
    /\ requests = <<>>

\* one call of user_to_dukascopy_tf, user_to_binance_tf or user_to_alpaca_tf
Translate ==
    /\ pc = "translate"
    /\ Len(calls) < MaxTranslations
    /\ \E provider \in Providers :
        /\ calls' = Append(calls, provider)
        /\ results' = Append(results, user_to_tf(provider, user_tf))
    /\ UNCHANGED <<args, binance_locals, pc, errors, outcome, requests>>

SpecTf == InitTf /\ [][Translate]_vars

\* the unit and the count parse_tf finds in the token of this run
TokenUnit == parse_tf(user_tf)[1]

TokenCount == parse_tf(user_tf)[2]

\* the token is of one of the two grammars and its unit is a listed spelling
RecognisedUnit == TokenUnit \in Spellings

UnitTable(provider) ==
    CASE provider = "dukascopy" -> dukascopy_units
      [] provider = "binance" -> binance_units
      [] provider = "alpaca" -> alpaca_units

\* the unit a listed spelling names: the value the fullest table gives for exactly that key
UnitNamed(key) == dukascopy_units[CHOOSE i \in DOMAIN dukascopy_units : dukascopy_units[i][1] = key][2]

\* C13: for a token of either grammar whose unit is a listed spelling of sec, min,
\* hour, day, week, month or year, every translation (Dukascopy, Binance, Alpaca)
\* succeeds, and two translations for the same provider give the same string.
C13_TranslationSucceeds ==
    RecognisedUnit =>
        /\ \A i \in DOMAIN results : results[i].ok
        /\ \A i, j \in DOMAIN results : calls[i] = calls[j] => results[i] = results[j]

\* C14: a translation that succeeds for a token with a listed unit spelling returns
\* the token's count followed by the provider's spelling of the unit that spelling
\* names, never the spelling of another unit.
C14_SameUnit ==
    RecognisedUnit =>
        \A i \in DOMAIN results : results[i].ok =>
            \E k \in DOMAIN UnitTable(calls[i]) :
                /\ UnitNamed(UnitTable(calls[i])[k][1]) = UnitNamed(TokenUnit)
                /\ results[i].value = TokenCount \o UnitTable(calls[i])[k][2]

\* C15: a token without a parsable unit, or whose unit is no listed spelling, fails
\* every translation with the format error; none is translated to a timeframe.
C15_UnlistedUnitFails ==
    ~RecognisedUnit => \A i \in DOMAIN results : ~results[i].ok /\ results[i].exc = "ValueError"

\* the broker's interval unit for a unit of the tables
BrokerUnit(unit) ==
    CASE unit = <<"M", "I", "N">> -> "Minute"
      [] unit = <<"H", "O", "U", "R">> -> "Hour"
      [] unit = <<"D", "A", "Y">> -> "Day"
      [] unit = <<"W", "E", "E", "K">> -> "Week"
      [] OTHER -> "None"

\* the bar interval the token of this run denotes: its count of its unit
Denoted == TimeFrame(int(TokenCount), BrokerUnit(UnitNamed(TokenUnit)))

\* C16: every bars request the broker adapter sends asks for the interval the
\* caller's token denotes; for a token it cannot map no request is sent.
C16_NoDefaultTimeframe ==
    kind = "ohlcv" => \A i \in DOMAIN requests : requests[i].provider = "alpaca" =>
        /\ RecognisedUnit
        /\ requests[i].req.timeframe = Denoted

\* C17: every failure of an adapter function leaves it as a DataProviderError
\* that carries a message; no exception of another type leaves an adapter.
C17_AdaptersRaiseProviderError ==
    \A i \in DOMAIN results : ~results[i].ok => results[i].exc = "DataProviderError" /\ results[i].msg # <<>>

\* C18: an adapter whose package is missing is recorded as a failure under its
\* name and the adapters after it are still attempted, whichever adapter it is:
\* the historical feed and the broker (ImportError of the adapter call) or the
\* exchange (ccxt).
C18_MissingDependencyDoesNotAbort ==
    /\ \A i \in DOMAIN results : (~results[i].ok /\ results[i].exc = "ImportError") =>
        /\ errors[i] = [name |-> ProviderName(calls[i]), reason |-> results[i].msg]
        /\ pc # calls[i]
        /\ i = 1 => pc \in {"binance", "binance_page", "binance_end"} \/ Len(calls) >= 2
        /\ (i = 2 /\ has_keys(api_key, secret_key)) => pc = "alpaca" \/ Len(calls) = 3
    /\ pc # "import_failed"

\* -------------------------------------------- the instant parser on its own

\* how many calls of user_to_dt one run makes
MaxParses == 2

Hyphen == <<"-">>

Years == {<<"0", "0", "0", "5">>, <<"2", "0", "2", "3">>, <<"2", "0", "2", "4">>}

Months == {<<"0", "1">>, <<"2">>, <<"1", "3">>}

Days == {<<"0", "1">>, <<"2", "9">>, <<"3", "1">>}

\* what follows the day: nothing, up to three time components, some out of range,
\* and components beyond the sixth
TimeTails ==
    {<<>>, <<"-", "1", "2">>, <<"-", "1", "2", "-", "3", "0">>, <<"-", "1", "2", "-", "3", "0", "-", "4", "5">>,
     <<"-", "2", "4">>, <<"-", "1", "2", "-", "6", "0">>, <<"-", "x">>, <<"-">>,
     <<"-", "0", "-", "0", "-", "0", "-", "5">>, <<"-", "0", "-", "0", "-", "0", "-", "5", "-", "7">>, <<"-", "0", "-", "0", "-", "0", "-", "5", "-", "7", "-", "9">>}

\* the time part of the combined date-time grammar
IsoTails ==
    {<<"T", "1", "2">>, <<"T", "1", "2", ":", "3", "0">>, <<" ", "1", "2", ":", "3", "0", ":", "4", "5">>, <<"T", "1", "2", ":", "3", "0", ":", "4", "5", ".", "0", "0", "0", "1", "2", "3">>,
     <<"T">>, <<"T", "2", "5", ":", "0", "0">>, <<"T", "1", "2", ":", "3">>}

DateTokens ==
    {y \o Hyphen \o m \o Hyphen \o d \o t : y \in Years, m \in Months, d \in Days, t \in TimeTails}
    \cup {y \o Hyphen \o m \o Hyphen \o d \o t : y \in Years, m \in {<<"0", "1">>, <<"1", "3">>}, d \in {<<"0", "1">>}, t \in IsoTails}
    \cup Years \cup {y \o Hyphen \o m : y \in Years, m \in Months}
    \cup {<<>>, <<"n", "o", "w">>, <<"-", "2", "0", "2", "4", "-", "0", "1", "-", "0", "1">>}

InitDt ==
    /\ kind = "parse"
    /\ user_start \in DateTokens
    /\ symbol = <<>> /\ user_tf = <<>> /\ user_end = <<>> /\ api_key = None /\ secret_key = None
    /\ source = <<>>
    /\ pc = "parse"
    /\ errors = <<>>
    /\ outcome = NoOutcome
    /\ since = 0 /\ end_ms = 0 /\ all_ohlcv = <<>> /\ batch = <<>> /\ binance_tf = <<>>
    /\ calls = <<>>
    /\ results = <<>>
    /\ requests = <<>>

\* one call user_to_dt(s, as_type)
ParseDate ==
    /\ pc = "parse"
    /\ Len(calls) < MaxParses
    /\ \E as_type \in {"datetime", "iso"} :
        /\ calls' = Append(calls, as_type)
        /\ results' = Append(results, user_to_dt(user_start, as_type))
    /\ UNCHANGED <<args, binance_locals, pc, errors, outcome, requests>>

SpecDt == InitDt /\ [][ParseDate]_vars

\* the hyphen-separated pieces of the token of this run
Fields == split(user_start, "-")

AllIntegers == \A k \in DOMAIN Fields : IsInt(Fields[k])

\* component k of the token, or the given default when the token has no such component
Component(k, default) == IF k <= Len(Fields) THEN int(Fields[k]) ELSE default

\* the instant with the token's components, the omitted ones zero
Instant == datetime(<<Component(1, 0), Component(2, 0), Component(3, 0), Component(4, 0), Component(5, 0), Component(6, 0), 0>>)

\* the components the token gives are those of a calendar date and a time of day
GivenInRange == ValidDateTime(<<Component(1, 1), Component(2, 1), Component(3, 1), Component(4, 0), Component(5, 0), Component(6, 0), 0>>)

\* a token of n1 to six integers with components in range
HyphenToken(n1) == Len(Fields) \in n1..6 /\ AllIntegers /\ GivenInRange

\* every call made so far succeeded, and as a datetime it returned the instant of
\* the token's components
ReturnsInstant ==
    \A i \in DOMAIN results :
        /\ results[i].ok
        /\ calls[i] = "datetime" => results[i].value = Instant

\* C19 (as amended): user_to_dt accepts a token of three to six hyphen-separated
\* integers (year, month, day, then hour, minute, second) and returns the instant
\* with these components, the omitted time components being zero.
C19_HyphenGrammar == HyphenToken(3) => ReturnsInstant

\* C19 as stated: any token of up to six integers is accepted, a year alone or a
\* year and a month included
C19_UpToSixIntegers == HyphenToken(1) => ReturnsInstant

\* a bare date gave midnight, and a full token its own six components
C19_Witness ==
    /\ HyphenToken(3) /\ Len(results) = 2 /\ calls = <<"datetime", "iso">>
    /\ \/ Len(Fields) = 3 /\ results[1].value.hour = 0 /\ results[1].value.second = 0
       \/ Len(Fields) = 6 /\ results[1].value.second = 45

\* the token is of neither grammar
NoGrammar == ~HyphenToken(3) /\ ~fromisoformat(user_start).ok

\* C20: for a token of neither grammar every call of user_to_dt raises the format
\* error (ValueError): none returns an instant, none raises another exception.
C20_OnlyValueError ==
    NoGrammar => \A i \in DOMAIN results : ~results[i].ok /\ results[i].exc = "ValueError"

\* the token is of one of the two grammars
ValidToken == HyphenToken(3) \/ fromisoformat(user_start).ok

\* the canonical rendering of six components
Canonical(f) == Pad4(f[1]) \o <<"-">> \o Pad2(f[2]) \o <<"-">> \o Pad2(f[3]) \o <<"T">> \o Pad2(f[4]) \o <<":">> \o Pad2(f[5]) \o <<":">> \o Pad2(f[6])

\* C21: for a valid token of either grammar, the text user_to_dt renders
\* (as_type 'iso'), parsed again, is the instant user_to_dt returns as a datetime;
\* for a six-field token the text carries the token's six components.
C21_RoundTrip ==
    ValidToken => \A i \in DOMAIN results : calls[i] = "iso" =>
        /\ results[i].ok
        /\ fromisoformat(results[i].value) = user_to_dt(user_start, "datetime")
        /\ (Len(Fields) = 6 /\ AllIntegers) => results[i].value = Canonical(<<Component(1, 0), Component(2, 0), Component(3, 0), Component(4, 0), Component(5, 0), Component(6, 0)>>)

\* ------------------------------------------------ two runs side by side

\* In this specification every variable holds a pair: component r belongs to run r.
\* The code shares nothing between two calls: `errors` is a local list, the
\* exchange client is built inside the adapter call.
Runs2 == {1, 2}

\* the pagination loop of the exchange adapter, run to its end
RECURSIVE paginate(_, _, _, _, _)
paginate(k, src, cursor, end, all) ==
    IF ~loop_guard(cursor, end) \/ fetch_page(k, src, cursor, limit) = <<>> THEN all
    ELSE IF short_page(fetch_page(k, src, cursor, limit)) THEN all \o kept(k, fetch_page(k, src, cursor, limit), end)
    ELSE paginate(k, src, next_since(k, fetch_page(k, src, cursor, limit)), end, all \o kept(k, fetch_page(k, src, cursor, limit), end))

Paginated(k, b, src, up) ==
    IF ~b.ok THEN b
    ELSE IF ~up THEN Wrap(NetworkError)
    ELSE binance_end(k, paginate(k, src, b.value.since, b.value.end_ms, <<>>))

\* fetch_binance_ohclv / fetch_binance_ticks as one call; `up` tells whether the
\* exchange can be reached
fetch_binance(k, tf_tok, start_tok, end_tok, src, up) == Paginated(k, binance_begin(k, tf_tok, start_tok, end_tok), src, up)

\* faulty variant: `errors` is one list of the module, shared by the runs
append_shared(errs, r, e) == [q \in DOMAIN errs |-> Append(errs[q], e)]

\* `errors.append(...)` on the list of run r
append_error(errs, r, e) == [errs EXCEPT ![r] = Append(@, e)]

InitPair ==
    /\ kind \in {<<"ohlcv", "tick">>, <<"tick", "ohlcv">>, <<"ohlcv", "ohlcv">>, <<"tick", "tick">>}
    /\ symbol = <<<<" ", "b", "t", "c", "/", "u", "s", "d", "t">>, <<"A", "A", "P", "L">>>>
    /\ user_tf \in {<<<<"1", "m", "i", "n">>, <<"1", "x", "y", "z">>>>, <<<<"2", "h">>, <<"1", "m", "i", "n">>>>}
    /\ user_start = <<GoodStart, GoodStart>>
    /\ user_end = <<GoodEnd, GoodEnd>>
    /\ api_key \in {<<None, <<"k">>>>, <<<<"k">>, None>>, <<<<"k">>, <<"k">>>>}
    /\ secret_key = api_key
    /\ source = <<Held(kind[1], <<>>), Held(kind[2], <<1000, 1999, 2000>>)>>
    /\ pc = <<"dukascopy", "dukascopy">>
    /\ errors = <<<<>>, <<>>>>
    /\ outcome = <<NoOutcome, NoOutcome>>
    /\ since = 0 /\ end_ms = 0 /\ all_ohlcv = <<>> /\ batch = <<>> /\ binance_tf = <<>>
    /\ calls = <<<<>>, <<>>>>
    /\ results = <<<<>>, <<>>>>
    /\ requests = <<>>

\* one try block of run r, with the adapter's result res
SettlePair(r, name, tag, res, next) ==
    /\ calls' = [calls EXCEPT ![r] = Append(@, tag)]
    /\ results' = [results EXCEPT ![r] = Append(@, res)]
    /\ pc' = [pc EXCEPT ![r] = after(res, next)]
    /\ errors' = IF ~res.ok /\ caught(res) THEN append_error(errors, r, entry(name, res)) ELSE errors
    /\ outcome' = [outcome EXCEPT ![r] = IF res.ok THEN Return(unified_return(kind[r], tag, res)) ELSE IF caught(res) THEN @ ELSE res]
    /\ UNCHANGED <<args, binance_locals, requests>>

DukascopyResults(r) ==
    {IF kind[r] = "ohlcv" THEN fetch_dukascopy_ohclv(symbol[r], user_tf[r], user_start[r], user_end[r], [import_ok |-> ok, response |-> DukascopyResponses(kind[r])[n]])
     ELSE fetch_dukascopy_ticks(symbol[r], user_tf[r], user_start[r], user_end[r], [import_ok |-> ok, response |-> DukascopyResponses(kind[r])[n]]) :
        ok \in BOOLEAN, n \in DOMAIN DukascopyResponses(kind[r])}

BinanceResults(r) == {fetch_binance(kind[r], user_tf[r], user_start[r], user_end[r], source[r], up) : up \in BOOLEAN}

AlpacaResults(r) ==
    {IF kind[r] = "ohlcv" THEN fetch_alpaca_ohclv(symbol[r], user_tf[r], user_start[r], user_end[r], api_key[r], secret_key[r], [import_ok |-> ok, response |-> AlpacaResponses(kind[r], upper(strip(symbol[r])))[n]])
     ELSE fetch_alpaca_ticks(symbol[r], user_tf[r], user_start[r], user_end[r], api_key[r], secret_key[r], [import_ok |-> ok, response |-> AlpacaResponses(kind[r], upper(strip(symbol[r])))[n]]) :
        ok \in BOOLEAN, n \in DOMAIN AlpacaResponses(kind[r], upper(strip(symbol[r])))}

PairDukascopy(r) == pc[r] = "dukascopy" /\ \E res \in DukascopyResults(r) : SettlePair(r, "Dukascopy", "dukascopy", res, "binance")

PairBinance(r) == pc[r] = "binance" /\ \E res \in BinanceResults(r) : SettlePair(r, "Binance", "binance", res, "alpaca")

PairAlpaca(r) == pc[r] = "alpaca" /\ has_keys(api_key[r], secret_key[r]) /\ \E res \in AlpacaResults(r) : SettlePair(r, "Alpaca", "alpaca", res, "exhausted")

PairSkip(r) ==
    /\ pc[r] = "alpaca"
    /\ ~has_keys(api_key[r], secret_key[r])
    /\ errors' = [errors EXCEPT ![r] = skipped(kind[r], @)]
    /\ pc' = [pc EXCEPT ![r] = "exhausted"]
    /\ UNCHANGED <<args, binance_locals, outcome, calls, results, requests>>

PairRaise(r) ==
    /\ pc[r] = "exhausted"
    /\ outcome' = [outcome EXCEPT ![r] = aggregate(errors[r])]
    /\ pc' = [pc EXCEPT ![r] = "done"]
    /\ UNCHANGED <<args, binance_locals, errors, calls, results, requests>>

NextPair == \E r \in Runs2 : PairDukascopy(r) \/ PairBinance(r) \/ PairAlpaca(r) \/ PairSkip(r) \/ PairRaise(r)

SpecPair == InitPair /\ [][NextPair]_vars

\* the adapter results run r could get on its own, adapter by adapter
ResultsAlone(r, tag) ==
    CASE tag = "dukascopy" -> DukascopyResults(r)
      [] tag = "binance" -> BinanceResults(r)
      [] tag = "alpaca" -> AlpacaResults(r)

\* the Broker adapter of run r has been passed over for want of keys
PassedOver(r) == ~has_keys(api_key[r], secret_key[r]) /\ Len(calls[r]) = 2 /\ pc[r] \in {"exhausted", "done"} /\ ~results[r][2].ok

\* the error list of run r as its own adapter results make it
ErrorsAlone(r) ==
    LET failed == SelectSeq([i \in DOMAIN results[r] |-> i], LAMBDA i : ~results[r][i].ok)
        own == [j \in DOMAIN failed |-> [name |-> ProviderName(calls[r][failed[j]]), reason |-> results[r][failed[j]].msg]]
    IN  IF PassedOver(r) THEN skipped(kind[r], own) ELSE own

\* the outcome of run r as its own adapter results make it
OutcomeAlone(r) ==
    IF pc[r] # "done" THEN NoOutcome
    ELSE IF results[r][Len(results[r])].ok THEN Return(unified_return(kind[r], calls[r][Len(calls[r])], results[r][Len(results[r])]))
    ELSE aggregate(ErrorsAlone(r))

\* what of run r is its own: its calls, results, error list, outcome and position
Own(r) == <<calls[r], results[r], errors[r], outcome[r], pc[r]>>

\* run r is as its own adapter results make it
AsAlone(r) ==
    /\ IsPrefix(calls[r], Order)
    /\ Len(results[r]) = Len(calls[r])
    /\ \A i \in 1..(Len(results[r]) - 1) : ~results[r][i].ok
    /\ errors[r] = ErrorsAlone(r)
    /\ outcome[r] = OutcomeAlone(r)

\* C22: with the steps of two runs interleaved in any way, a step of one run leaves
\* everything of the other run as it was, the result a step adds to a run is one its
\* own adapter can produce from its own arguments, and after every step each run's
\* sequence of adapters, error list and outcome are those of the run alone.
C22_RunsAreIndependent ==
    [][\A r \in Runs2 :
        /\ AsAlone(r)'
        /\ Own(r)' # Own(r) => \A q \in Runs2 \ {r} : Own(q)' = Own(q)
        /\ results[r]' # results[r] =>
            \E res \in ResultsAlone(r, calls[r]'[Len(calls[r]')]) : results[r]' = Append(results[r], res)]_vars

\* both runs were under way at once, each with failures of its own recorded, and
\* both have ended with an aggregate of their own
C22_Witness ==
    /\ pc = <<"done", "done">>
    /\ ~outcome[1].ok /\ ~outcome[2].ok
    /\ Len(errors[1]) = 3 /\ Len(errors[2]) >= 2
    /\ errors[1] # errors[2]

\* the instants of a record list never go back in time
Ascending(times) == \A i \in 1..(Len(times) - 1) : timestamp_ms(times[i]) <= timestamp_ms(times[i + 1])

\* C23: the records the Broker adapter returns, bars or ticks, are in ascending
\* order of time whatever the order of the rows in the broker's response.
C23_BrokerSortsByTime ==
    \A i \in DOMAIN results : (calls[i] = "alpaca" /\ results[i].ok) => Ascending(results[i].value.times)

\* a symbol without what the claim calls insignificant: letter case, surrounding
\* whitespace and '/'
Folded(sym) == remove(upper(strip(sym)), "/")

\* other ways of writing the symbols of the runs
Spellings24 == Symbols \cup {<<"B", "T", "C", "U", "S", "D", "T">>, <<"b", "t", "c", "/", "U", "S", "D", "T", " ">>, <<" ", "a", "a", "p", "l">>}

SameSymbol(sym) == {s \in Spellings24 : Folded(s) = Folded(sym)}

\* the request an adapter of the run would have built for the symbol written as s
RequestFor(sent, s) ==
    CASE sent.provider = "dukascopy" -> [sent.req EXCEPT !.symbol = upper(strip(s))]
      [] sent.provider = "binance" -> [sent.req EXCEPT !.symbol = remove(upper(strip(s)), "/")]
      [] sent.provider = "alpaca" -> alpaca_request(kind, s, user_tf, user_start, user_end)

\* C24: for every request an adapter has sent, the same run with the symbol
\* written in another case, with other surrounding whitespace or with or without
\* '/' would have sent the same request, with the same asset class.
C24_SymbolSpellingIsIrrelevant ==
    \A i \in DOMAIN requests : \A s \in SameSymbol(symbol) : RequestFor(requests[i], s) = requests[i].req

\* the results a tick adapter of the run can end with, were the timeframe tf
TickResults(tag, tf) ==
    CASE tag = "dukascopy" -> {fetch_dukascopy_ticks(symbol, tf, user_start, user_end, [import_ok |-> ok, response |-> DukascopyResponses("tick")[n]]) : ok \in BOOLEAN, n \in DOMAIN DukascopyResponses("tick")}
      [] tag = "binance" -> {fetch_binance("tick", tf, user_start, user_end, source, up) : up \in BOOLEAN}
      [] tag = "alpaca" -> {fetch_alpaca_ticks(symbol, tf, user_start, user_end, api_key, secret_key, [import_ok |-> ok, response |-> AlpacaResponses("tick", upper(strip(symbol)))[n]]) : ok \in BOOLEAN, n \in DOMAIN AlpacaResponses("tick", upper(strip(symbol)))}

\* the request a tick adapter of the run would have sent, were the timeframe tf
TickRequest(sent, tf) ==
    CASE sent.provider = "dukascopy" -> dukascopy_request("tick", symbol, tf, user_start, user_end, [import_ok |-> TRUE])[1]
      [] sent.provider = "binance" -> [sent.req EXCEPT !.tf = binance_begin("tick", tf, user_start, user_end).value.tf]
      [] sent.provider = "alpaca" -> alpaca_request("tick", symbol, tf, user_start, user_end)

\* the message of a failed translation
TranslationFailure(msg) == \E p \in {"Dukascopy", "Binance", "Alpaca"} : msg = Lookup(<<>>, <<>>, {}, p).msg

\* the timeframes a run is compared under: one every translator accepts, one none accepts
OtherTimeframes == {<<"1", "m", "i", "n">>, <<"1", "x", "y", "z">>}

\* C25: in a tick fetch the timeframe argument plays no part: when the run has ended
\* no adapter has failed with a translation failure, and every adapter result and
\* every request of the run, whatever its timeframe token, is one the same run would
\* have with a token every translator accepts and with one none accepts, so the
\* outcome is the same for every timeframe.
C25_TicksIgnoreTimeframe ==
    (kind = "tick" /\ pc = "done") =>
        /\ \A i \in DOMAIN results : ~results[i].ok => ~TranslationFailure(results[i].msg)
        /\ \A tf \in OtherTimeframes :
            /\ \A i \in DOMAIN results : results[i] \in TickResults(calls[i], tf)
            /\ \A i \in DOMAIN requests : TickRequest(requests[i], tf) = requests[i].req

\* a tick fetch whose timeframe no translator accepts has gone through the exchange
\* adapter and ended with records
C25_Witness ==
    /\ kind = "tick" /\ MalformedTimeframe
    /\ pc = "done" /\ outcome.ok
    /\ Len(results) >= 2 /\ requests # <<>>

\* C26: a translation that matches no unit in its table fails with the dedicated
\* timeframe error, InvalidTimeframeError.
C26_DedicatedTimeframeError ==
    \A i \in DOMAIN results : ~results[i].ok => results[i].exc = "InvalidTimeframeError"

\* the message of a date token that user_to_dt rejects
DateFailure(msg) == msg = Fallback(Raise("ValueError", <<>>), Raise("ValueError", <<>>), "iso").msg

\* the requests adapter tag has sent
RequestsOf(tag) == SelectSeq(requests, LAMBDA q : q.provider = tag)

MaxRequests == 3

\* a page of m records, one per millisecond from t on
PageFrom(k, t, m) == [i \in 1..m |-> IF k = "ohlcv" THEN Candle(CandleAt(t + i - 1)) ELSE TradeAt(i, t + i - 1)]

\* where the pages of an upstream may start, for a request at the cursor
PageStarts(cursor, end) == {cursor - 2, cursor, cursor + 1, end - 1, end + 1}

InitUpstream ==
    /\ kind \in {"ohlcv", "tick"}
    /\ symbol = <<" ", "b", "t", "c", "/", "u", "s", "d", "t">>
    /\ user_tf = <<"1", "m", "i", "n">>
    /\ user_start = GoodStart
    /\ user_end \in EndTokens
    /\ api_key = None /\ secret_key = None
    /\ source = <<>>
    /\ pc = "binance"
    /\ errors = <<>>
    /\ outcome = NoOutcome
    /\ since = 0 /\ end_ms = 0 /\ all_ohlcv = <<>> /\ batch = <<>> /\ binance_tf = <<>>
    /\ calls = <<>>
    /\ results = <<>>
    /\ requests = <<>>

\* one iteration of the loop, the upstream answering with the page
ReceivePage(page) ==
    /\ requests' = Append(requests, [provider |-> "binance", req |-> [symbol |-> remove(upper(strip(symbol)), "/"), tf |-> binance_tf, since |-> since, limit |-> limit], answer |-> IF page = <<>> THEN "empty" ELSE "records"])
    /\ batch' = page
    /\ all_ohlcv' = all_ohlcv \o kept(kind, page, end_ms)
    /\ since' = IF page = <<>> \/ short_page(page) THEN since ELSE next_since(kind, page)
    /\ pc' = IF page # <<>> /\ ~short_page(page) /\ loop_guard(next_since(kind, page), end_ms) THEN "binance_page" ELSE "binance_end"
    /\ UNCHANGED <<args, end_ms, binance_tf, errors, outcome, calls, results>>

AnyPage ==
    /\ pc = "binance_page"
    /\ Len(requests) < MaxRequests
    /\ \E t \in PageStarts(since, end_ms), m \in 0..limit : ReceivePage(PageFrom(kind, t, m))

NextUpstream == BeginBinance \/ AnyPage \/ FinishBinance

SpecUpstream == InitUpstream /\ [][NextUpstream]_vars

\* the loop goes from one page request to the next
NextRequest == pc = "binance_page" /\ pc' = "binance_page"

\* C28: against every upstream the cursor strictly increases from one page request
\* to the next, so that the loop ends after finitely many requests.
C28_CursorAlwaysIncreases ==
    [][NextRequest => since < since']_vars

\* a part of the credential pair is given and is not the empty string
Present(key) == key # None /\ Len(key) > 0

BrokerInvoked == \E i \in DOMAIN calls : calls[i] = "alpaca"

BothEarlierFailed == Len(results) >= 2 /\ ~results[1].ok /\ ~results[2].ok

\* C29: the Broker adapter is never invoked unless both earlier adapters have failed
\* and both api_key and secret_key are present and non-empty, and a run that has
\* ended has invoked it whenever that was the case.
C29_BrokerNeedsBothKeys ==
    /\ BrokerInvoked => (BothEarlierFailed /\ Present(api_key) /\ Present(secret_key))
    /\ pc = "done" => ((BothEarlierFailed /\ Present(api_key) /\ Present(secret_key)) => BrokerInvoked)

\* both earlier adapters failed, one part of the pair only was given, and the run
\* has ended without the Broker adapter
C29_Witness ==
    /\ pc = "done" /\ BothEarlierFailed
    /\ Present(api_key) /\ ~Present(secret_key)
    /\ ~BrokerInvoked

\* the adapters that have failed so far
Failed == {i \in DOMAIN results : ~results[i].ok}

\* the entries of the error list that record an adapter as skipped
SkipEntries == {i \in DOMAIN errors : errors[i].reason = <<"Skipped (No keys)">>}

\* C30: no adapter is invoked twice in a run, and at every point the error list has
\* one entry for each adapter that has failed and one for each adapter recorded as
\* skipped, no more and no fewer; an adapter recorded as skipped was not invoked.
C30_OneCallOneEntry ==
    /\ \A i, j \in DOMAIN calls : calls[i] = calls[j] => i = j
    /\ Len(errors) = Cardinality(Failed) + Cardinality(SkipEntries)
    /\ \A i \in SkipEntries : errors[i].name = "Alpaca" /\ ~BrokerInvoked

\* two adapters have failed, the third is recorded as skipped, and the run has ended
C30_Witness ==
    /\ pc = "done"
    /\ Cardinality(Failed) = 2 /\ Cardinality(SkipEntries) = 1
    /\ Len(errors) = 3

\* C31: a translation that succeeds has a positive count: a token whose count is
\* zero is rejected by every translation function, none renders it into a provider's
\* timeframe string.
C31_CountIsPositive ==
    \A i \in DOMAIN results : results[i].ok => (IsInt(TokenCount) /\ int(TokenCount) > 0)

====
